---- MODULE Spec2Model ----
(***************************************************************************)
(* Model of todotxt-parser (src/src/parser.ts).                            *)
(*                                                                         *)
(* A JavaScript string is a sequence of one-character strings; a multi-    *)
(* line text holds the line feed as the character "\n".  An optional field *)
(* of a Todo that is undefined holds the value Undefined.  Indices are the *)
(* 0-based indices of the source.                                          *)
(***************************************************************************)
EXTENDS Integers, Sequences, FiniteSets, TLC

VARIABLES
    line,       \* the argument of parseTodoLine
    todo,       \* the Todo under consideration (parsed or built by a caller)
    origin,     \* "line": todo = parseTodoLine(line); "caller": built by hand
    out,        \* serializeTodo(todo)
    todo2,      \* parseTodoLine(out)
    phase,      \* position in the parse / serialize / re-parse cycle
    content,    \* the text buffer the file-level operations work on
    before,     \* content before the last operation
    lastOp,     \* name of the last file-level operation
    argIndex,   \* lineIndex argument of the last operation
    argTodo,    \* Todo argument of the last operation
    todos,      \* result of the last parseTodoTxt(content)
    nops        \* number of file-level operations applied so far

vars == <<line, todo, origin, out, todo2, phase,
          content, before, lastOp, argIndex, argTodo, todos, nops>>

lineVars == <<line, todo, origin, out, todo2, phase>>
fileVars == <<content, before, lastOp, argIndex, argTodo, todos, nops>>

-----------------------------------------------------------------------------
(* Characters and strings *)

Undefined == <<"undefined">>

\* whitespace without the carriage return
WhiteSpaceNoCR == {" ", "\t", "\n"}

\* the characters of the model that trim() removes and \s matches
WhiteSpace == {" ", "\t", "\r", "\n"}

Digit == {"0", "1", "2", "3", "4", "5", "6", "7", "8", "9"}

UpperAZ == {"A", "B", "C", "D", "E", "F", "G", "H", "I", "J", "K", "L", "M",
            "N", "O", "P", "Q", "R", "S", "T", "U", "V", "W", "X", "Y", "Z"}

RECURSIVE TrimStart(_)
TrimStart(s) ==
    IF s # <<>> /\ Head(s) \in WhiteSpace THEN TrimStart(Tail(s)) ELSE s

RECURSIVE TrimEnd(_)
TrimEnd(s) ==
    IF s # <<>> /\ s[Len(s)] \in WhiteSpace
    THEN TrimEnd(SubSeq(s, 1, Len(s) - 1))
    ELSE s

\* String.prototype.trim
Trim(s) == TrimEnd(TrimStart(s))

\* String.prototype.startsWith
StartsWith(s, p) == Len(s) >= Len(p) /\ SubSeq(s, 1, Len(p)) = p

\* String.prototype.slice(n), n >= 0
Slice(s, n) == SubSeq(s, n + 1, Len(s))

\* a value that an `if (v)` of the source takes as true
Truthy(v) == v # Undefined /\ v # <<>>

\* last index of the greedy \S+ run that starts at index j (s[j] is not white)
RECURSIVE RunEnd(_, _)
RunEnd(s, j) ==
    IF j < Len(s) /\ s[j + 1] \notin WhiteSpace THEN RunEnd(s, j + 1) ELSE j

-----------------------------------------------------------------------------
(* parseTodoLine *)

\* /^\(([A-Z])\)\s/ : length of the match, 0 when there is none
priorityMatch(remaining) ==
    IF /\ Len(remaining) >= 4
       /\ remaining[1] = "("
       /\ remaining[2] \in UpperAZ
       /\ remaining[3] = ")"
       /\ remaining[4] \in WhiteSpace
    THEN 4 ELSE 0

\* /^(\d{4}-\d{2}-\d{2})\s/ : length of the match, 0 when there is none
dateRegex(remaining) ==
    IF /\ Len(remaining) >= 11
       /\ \A i \in {1, 2, 3, 4, 6, 7, 9, 10} : remaining[i] \in Digit
       /\ remaining[5] = "-"
       /\ remaining[8] = "-"
       /\ remaining[11] \in WhiteSpace
    THEN 11 ELSE 0

\* sigilMatches without the (?:^|\s) boundary: /\+(\S+)/g and /@(\S+)/g
RECURSIVE sigilMatchesAnywhere(_, _, _, _)
sigilMatchesAnywhere(s, sigil, i, acc) ==
    IF i > Len(s) THEN acc
    ELSE IF s[i] = sigil /\ i + 1 <= Len(s) /\ s[i + 1] \notin WhiteSpace
         THEN LET e == RunEnd(s, i + 1)
              IN  sigilMatchesAnywhere(s, sigil, e + 1,
                                       Append(acc, SubSeq(s, i + 1, e)))
         ELSE sigilMatchesAnywhere(s, sigil, i + 1, acc)

\* matchAll(/(?:^|\s)\+(\S+)/g) and matchAll(/(?:^|\s)@(\S+)/g): the list of
\* captured groups, scanning from index i
RECURSIVE sigilMatches(_, _, _, _)
sigilMatches(s, sigil, i, acc) ==
    IF i > Len(s) THEN acc
    ELSE LET p == IF i = 1 /\ s[1] = sigil THEN 1
                  ELSE IF s[i] \in WhiteSpace THEN i + 1
                  ELSE 0
             hit == /\ p > 0
                    /\ p + 1 <= Len(s)
                    /\ s[p] = sigil
                    /\ s[p + 1] \notin WhiteSpace
         IN  IF hit
             THEN LET e == RunEnd(s, p + 1)
                  IN  sigilMatches(s, sigil, e + 1,
                                   Append(acc, SubSeq(s, p + 1, e)))
             ELSE sigilMatches(s, sigil, i + 1, acc)

projectMatches(trimmed) == sigilMatches(trimmed, "+", 1, <<>>)

\* contextMatches without the ^ alternative: /\s@(\S+)/g
contextMatchesNoAnchor(trimmed) == sigilMatches(trimmed, "@", 2, <<>>)

contextMatches(trimmed) == sigilMatches(trimmed, "@", 1, <<>>)

\* index of the colon that ends the lazy (\S+?) key starting at index i of
\* /(\S+?):(\S+)/, 0 when no match starts at i; j is the candidate colon
RECURSIVE tagColon(_, _, _)
tagColon(s, i, j) ==
    IF s[i] \in WhiteSpace \/ j + 1 > Len(s) THEN 0
    ELSE IF s[j] = ":" /\ s[j + 1] \notin WhiteSpace THEN j
    ELSE IF s[j] \in WhiteSpace THEN 0
    ELSE tagColon(s, i, j + 1)

\* tagPut that keeps the value a key already has
tagPutKeepFirst(tags, key, value) ==
    IF \E kv \in tags : kv[1] = key THEN tags ELSE tags \cup {<<key, value>>}

\* tags[key] = value
tagPut(tags, key, value) == {kv \in tags : kv[1] # key} \cup {<<key, value>>}

\* matchAll(/(\S+?):(\S+)/g) with the loop body of the source
RECURSIVE tagMatches(_, _, _)
tagMatches(s, i, tags) ==
    IF i > Len(s) THEN tags
    ELSE LET c == tagColon(s, i, i + 1)
         IN  IF c = 0 THEN tagMatches(s, i + 1, tags)
             ELSE LET e == RunEnd(s, c + 1)
                      key == SubSeq(s, i, c - 1)
                      value == SubSeq(s, c + 1, e)
                  IN  IF s[i] # "+" /\ s[i] # "@"
                      THEN tagMatches(s, e + 1, tagPut(tags, key, value))
                      ELSE tagMatches(s, e + 1, tags)

\* completionMark written as the regular expression /^x\s/
completionMarkAnySpace(trimmed) ==
    Len(trimmed) >= 2 /\ trimmed[1] = "x" /\ trimmed[2] \in WhiteSpace

\* trimmed.startsWith("x ")
completionMark(trimmed) == StartsWith(trimmed, <<"x", " ">>)

\* completed ? trimmed.slice(2).trim() : trimmed
afterCompletion(trimmed, completed) ==
    IF completed THEN Trim(Slice(trimmed, 2)) ELSE trimmed

\* assignDates that takes a single date as the creation date whatever completed
assignDatesSingleIsCreation(completed, firstDate, secondDate) ==
    IF firstDate # Undefined
    THEN IF secondDate # Undefined
         THEN [completionDate |-> firstDate, creationDate |-> secondDate]
         ELSE [completionDate |-> Undefined, creationDate |-> firstDate]
    ELSE [completionDate |-> Undefined, creationDate |-> Undefined]

\* the assignments to completionDate and creationDate; a date that did not
\* match is Undefined, and there is no second match without a first one
assignDates(completed, firstDate, secondDate) ==
    IF firstDate # Undefined
    THEN IF secondDate # Undefined
         THEN [completionDate |-> firstDate, creationDate |-> secondDate]
         ELSE IF completed
              THEN [completionDate |-> firstDate, creationDate |-> Undefined]
              ELSE [completionDate |-> Undefined, creationDate |-> firstDate]
    ELSE [completionDate |-> Undefined, creationDate |-> Undefined]

parseTodoLine(ln) ==
    LET trimmed == Trim(ln)
        completed == completionMark(trimmed)
        remaining0 == afterCompletion(trimmed, completed)
        pm == priorityMatch(remaining0)
        priority == IF pm > 0 THEN <<remaining0[2]>> ELSE Undefined
        remaining1 == IF pm > 0 THEN Slice(remaining0, pm) ELSE remaining0
        first == dateRegex(remaining1)
        remaining2 == IF first > 0 THEN Slice(remaining1, first) ELSE remaining1
        second == IF first > 0 THEN dateRegex(remaining2) ELSE 0
        remaining3 == IF second > 0 THEN Slice(remaining2, second) ELSE remaining2
        dates == assignDates(completed,
                             IF first > 0 THEN SubSeq(remaining1, 1, 10) ELSE Undefined,
                             IF second > 0 THEN SubSeq(remaining2, 1, 10) ELSE Undefined)
    IN  [completed |-> completed,
         priority |-> priority,
         completionDate |-> dates.completionDate,
         creationDate |-> dates.creationDate,
         description |-> remaining3,
         projects |-> projectMatches(trimmed),
         contexts |-> contextMatches(trimmed),
         tags |-> tagMatches(trimmed, 1, {}),
         raw |-> ln]

-----------------------------------------------------------------------------
(* serializeTodo *)

\* serializeTodo that emits the completion date whatever completed is
serializeTodoUngated(t) ==
    LET r1 == IF t.completed THEN <<"x", " ">> ELSE <<>>
        r2 == IF Truthy(t.priority)
              THEN r1 \o <<"(">> \o t.priority \o <<")", " ">>
              ELSE r1
        r3 == IF Truthy(t.completionDate)
              THEN r2 \o t.completionDate \o <<" ">>
              ELSE r2
        r4 == IF Truthy(t.creationDate)
              THEN r3 \o t.creationDate \o <<" ">>
              ELSE r3
    IN  r4 \o t.description

serializeTodo(t) ==
    LET r1 == IF t.completed THEN <<"x", " ">> ELSE <<>>
        r2 == IF Truthy(t.priority)
              THEN r1 \o <<"(">> \o t.priority \o <<")", " ">>
              ELSE r1
        r3 == IF t.completed /\ Truthy(t.completionDate)
              THEN r2 \o t.completionDate \o <<" ">>
              ELSE r2
        r4 == IF Truthy(t.creationDate)
              THEN r3 \o t.creationDate \o <<" ">>
              ELSE r3
    IN  r4 \o t.description

-----------------------------------------------------------------------------
(* Texts: split, join and the file-level operations *)

\* String.prototype.split("\n"); cur is the line being collected
RECURSIVE splitLF(_, _, _)
splitLF(text, cur, acc) ==
    IF text = <<>> THEN Append(acc, cur)
    ELSE IF Head(text) = "\n" THEN splitLF(Tail(text), <<>>, Append(acc, cur))
    ELSE splitLF(Tail(text), Append(cur, Head(text)), acc)

\* join that ends every item with a line feed
RECURSIVE joinLFTrailing(_)
joinLFTrailing(strs) ==
    IF strs = <<>> THEN <<>>
    ELSE strs[1] \o <<"\n">> \o joinLFTrailing(Tail(strs))

\* Array.prototype.join("\n")
RECURSIVE joinLF(_)
joinLF(strs) ==
    IF strs = <<>> THEN <<>>
    ELSE IF Len(strs) = 1 THEN strs[1]
    ELSE strs[1] \o <<"\n">> \o joinLF(Tail(strs))

\* todos.map(serializeTodo)
mapSerialize(ts) == [i \in 1..Len(ts) |-> serializeTodo(ts[i])]

\* parseLines that tests line.length instead of trimmed.length
RECURSIVE parseLinesUntrimmed(_, _)
parseLinesUntrimmed(lines, acc) ==
    IF lines = <<>> THEN acc
    ELSE IF Len(Head(lines)) > 0
         THEN parseLinesUntrimmed(Tail(lines),
                                  Append(acc, parseTodoLine(Head(lines))))
         ELSE parseLinesUntrimmed(Tail(lines), acc)

\* the for loop of parseTodoTxt over the split lines
RECURSIVE parseLines(_, _)
parseLines(lines, acc) ==
    IF lines = <<>> THEN acc
    ELSE IF Len(Trim(Head(lines))) > 0
         THEN parseLines(Tail(lines), Append(acc, parseTodoLine(Head(lines))))
         ELSE parseLines(Tail(lines), acc)

parseTodoTxt(text) == parseLines(splitLF(text, <<>>, <<>>), <<>>)

\* the todos array after a call of updateTodoInList that assigns to
\* todos[index] itself
todosAfterUpdateInPlace(ts, index, updatedTodo) ==
    IF Len(ts) = 0 \/ index < 0 \/ index >= Len(ts) THEN ts
    ELSE [ts EXCEPT ![index + 1] = updatedTodo]

\* the todos array after a call of updateTodoInList: the assignment goes to
\* the copy [...todos]
todosAfterUpdate(ts, index, updatedTodo) == ts

\* updateTodoInList that serializes todos instead of updatedTodos
updateTodoInListStale(ts, index, updatedTodo) ==
    IF Len(ts) = 0 THEN <<>> ELSE joinLF(mapSerialize(ts))

updateTodoInList(ts, index, updatedTodo) ==
    IF Len(ts) = 0 THEN <<>>
    ELSE IF index < 0 \/ index >= Len(ts) THEN joinLF(mapSerialize(ts))
    ELSE joinLF(mapSerialize([ts EXCEPT ![index + 1] = updatedTodo]))

\* appendTaskToFile without the test for empty content
appendTaskToFileAlwaysLF(text, newTask) ==
    text \o <<"\n">> \o serializeTodo(newTask)

appendTaskToFile(text, newTask) ==
    IF Len(text) = 0 THEN serializeTodo(newTask)
    ELSE text \o <<"\n">> \o serializeTodo(newTask)

\* updateTaskAtLine with the range test lineIndex > todos.length
updateTaskAtLineOffByOne(text, lineIndex, updatedTodo) ==
    IF Len(text) = 0 THEN <<>>
    ELSE LET ts == parseTodoTxt(text)
         IN  IF lineIndex < 0 \/ lineIndex > Len(ts) THEN text
             ELSE updateTodoInList(ts, lineIndex, updatedTodo)

updateTaskAtLine(text, lineIndex, updatedTodo) ==
    IF Len(text) = 0 THEN <<>>
    ELSE LET ts == parseTodoTxt(text)
         IN  IF lineIndex < 0 \/ lineIndex >= Len(ts) THEN text
             ELSE updateTodoInList(ts, lineIndex, updatedTodo)

\* filterIndex that compares with the 1-based position
RECURSIVE filterIndexOneBased(_, _, _)
filterIndexOneBased(ts, lineIndex, index) ==
    IF ts = <<>> THEN <<>>
    ELSE IF index + 1 # lineIndex
         THEN <<Head(ts)>> \o filterIndexOneBased(Tail(ts), lineIndex, index + 1)
         ELSE filterIndexOneBased(Tail(ts), lineIndex, index + 1)

\* todos.filter((_todo, index) => index !== lineIndex)
RECURSIVE filterIndex(_, _, _)
filterIndex(ts, lineIndex, index) ==
    IF ts = <<>> THEN <<>>
    ELSE IF index # lineIndex
         THEN <<Head(ts)>> \o filterIndex(Tail(ts), lineIndex, index + 1)
         ELSE filterIndex(Tail(ts), lineIndex, index + 1)

\* deleteTaskAtLine that removes the physical line lineIndex of the text
deleteTaskAtLinePhysical(text, lineIndex) ==
    IF Len(text) = 0 THEN <<>>
    ELSE LET ls == splitLF(text, <<>>, <<>>)
         IN  IF lineIndex < 0 \/ lineIndex >= Len(ls) THEN text
             ELSE joinLF([k \in 1..(Len(ls) - 1) |->
                            IF k <= lineIndex THEN ls[k] ELSE ls[k + 1]])

deleteTaskAtLine(text, lineIndex) ==
    IF Len(text) = 0 THEN <<>>
    ELSE LET ts == parseTodoTxt(text)
         IN  IF lineIndex < 0 \/ lineIndex >= Len(ts) THEN text
             ELSE LET updatedTodos == filterIndex(ts, lineIndex, 0)
                  IN  IF Len(updatedTodos) = 0 THEN <<>>
                      ELSE joinLF(mapSerialize(updatedTodos))

-----------------------------------------------------------------------------
(* Bounds and input sets *)

MaxTokens == 3      \* leading tokens of an input line
MaxLines == 2       \* physical lines in the initial text
MaxOps == 1         \* file-level operations in one behaviour
MaxIndex == 2       \* largest lineIndex passed by a caller
MaxScan == 4        \* pieces of an annotation line

\* two date literals; the second is no calendar date
D1 == <<"2", "0", "2", "4", "-", "0", "1", "-", "2", "0">>
D2 == <<"2", "0", "2", "4", "-", "1", "3", "-", "0", "1">>

Tokens ==
    { <<"x", " ">>, <<"x">>, <<"X">>,
      <<"(", "A", ")", " ">>, <<"(", "A", ")">>,
      D1 \o <<" ">>, D2 \o <<" ">>, D2,
      <<" ">>, <<"\t">> }

\* what follows the leading tokens of an input line
Tails == { <<>>, <<"T">>, <<"+", "p", " ", "k", ":", "v">> }

RECURSIVE Concat(_)
Concat(ts) == IF ts = <<>> THEN <<>> ELSE Head(ts) \o Concat(Tail(ts))

Lines ==
    { Concat(ts) \o tail :
        ts \in UNION { [1..n -> Tokens] : n \in 0..MaxTokens }, tail \in Tails }

\* pieces of the lines that exercise projects, contexts and tags
ScanTokens == { <<"a">>, <<"a", ":">>, <<":">>, <<"+">>, <<"@">>, <<" ">> }

\* longer annotation lines: a repeated project, a repeated tag key, a
\* repeated context next to an address, a tag next to a project-like key
ScanSamples ==
    { <<"+", "a", " ", "T", " ", "+", "a">>,
      <<"k", ":", "v", " ", "k", ":", "w">>,
      <<"k", ":", "v", " ", "T", " ", "k", ":", "w", ":", "u", " ", "j", ":", "v">>,
      <<"@", "c", " ", "m", "@", "c", " ", "@", "c">>,
      <<"+", "k", ":", "v", " ", "k", ":", "v">>,
      <<"x", " ", "(", "A", ")", " ">> \o D1
          \o <<" ", "@", "c", " ", "+", "p", " ", "k", ":", "v">>,
      <<"(", "A", ")", " ", "@", "c">>,
      <<"x", " ", " ", "+", "p", ":", "v">>,
      D1 \o <<"\t", "k", ":", "v", " ", "m", "@", "c">> }

ScanLines ==
    { Concat(ts) : ts \in UNION { [1..n -> ScanTokens] : n \in 0..MaxScan } }
        \cup ScanSamples

InputLines == Lines \cup ScanLines

NoTodo == [completed |-> FALSE, priority |-> Undefined,
           completionDate |-> Undefined, creationDate |-> Undefined,
           description |-> <<>>, projects |-> <<>>, contexts |-> <<>>,
           tags |-> {}, raw |-> <<>>]

\* Todo objects a caller builds by hand
CallerTodos ==
    [completed : BOOLEAN,
     priority : {Undefined, <<"B">>},
     completionDate : {Undefined, D1},
     creationDate : {Undefined, D2},
     description : { <<"T">>, <<"T", " ", "+", "p">>, <<"k", ":", "v">> },
     projects : { <<>>, << <<"p">> >> },
     contexts : { <<>> },
     tags : { {}, { << <<"k">>, <<"v">> >> } },
     raw : { <<>> }]

SampleLines ==
    { <<>>,
      <<" ">>,
      <<"(", "A", ")", " ", "T">>,
      <<"x", " ">> \o D1 \o <<" ", "T", "\r">>,
      <<" ", "x", " ", " ", "T">> }

\* texts with lines that begin with two or three dates and no completion mark
SampleTexts ==
    { D1 \o <<" ">> \o D2 \o <<" ", "T", "\n", "(", "A", ")", " ", "T">>,
      D1 \o <<" ">> \o D2 \o <<" ">> \o D1 \o <<" ", "T">> }

Texts ==
    { joinLF(ls) : ls \in UNION { [1..n -> SampleLines] : n \in 0..MaxLines } }
        \cup SampleTexts

SampleTodos ==
    { parseTodoLine(<<"(", "B", ")", " ", "U", " ", "@", "c">>),
      [NoTodo EXCEPT !.completed = TRUE, !.completionDate = D1,
                     !.creationDate = D2, !.description = <<"W", " ", "+", "p">>,
                     !.projects = << <<"p">> >>] }

Indices == (0 - 1)..MaxIndex

-----------------------------------------------------------------------------
(* The parse / serialize / re-parse cycle of one line *)

lineIdle ==
    /\ line = <<>> /\ todo = NoTodo /\ origin = "none"
    /\ out = <<>> /\ todo2 = NoTodo /\ phase = "idle"

fileIdle ==
    /\ content = <<>> /\ before = <<>> /\ lastOp = "none"
    /\ argIndex = 0 /\ argTodo = NoTodo /\ todos = <<>> /\ nops = 0

InitLine ==
    /\ \/ /\ line \in InputLines
          /\ todo = NoTodo
          /\ origin = "line"
          /\ phase = "input"
       \/ /\ line = <<>>
          /\ todo \in CallerTodos
          /\ origin = "caller"
          /\ phase = "built"
    /\ out = <<>>
    /\ todo2 = NoTodo
    /\ fileIdle

ParseTodoLine ==
    /\ phase = "input"
    /\ todo' = parseTodoLine(line)
    /\ phase' = "parsed"
    /\ UNCHANGED <<line, origin, out, todo2>>
    /\ UNCHANGED fileVars

\* SerializeTodo that gives back the raw line of a parsed record
SerializeTodoFromRaw ==
    /\ phase \in {"parsed", "built"}
    /\ out' = IF origin = "line" THEN todo.raw ELSE serializeTodo(todo)
    /\ phase' = "serialized"
    /\ UNCHANGED <<line, todo, origin, todo2>>
    /\ UNCHANGED fileVars

SerializeTodo ==
    /\ phase \in {"parsed", "built"}
    /\ out' = serializeTodo(todo)
    /\ phase' = "serialized"
    /\ UNCHANGED <<line, todo, origin, todo2>>
    /\ UNCHANGED fileVars

ReparseSerialized ==
    /\ phase = "serialized"
    /\ todo2' = parseTodoLine(out)
    /\ phase' = "reparsed"
    /\ UNCHANGED <<line, todo, origin, out>>
    /\ UNCHANGED fileVars

NextLine == ParseTodoLine \/ SerializeTodo \/ ReparseSerialized

SpecLine == InitLine /\ [][NextLine]_vars

-----------------------------------------------------------------------------
(* The file-level operations on a text buffer *)

Init ==
    /\ content \in Texts
    /\ before = <<>>
    /\ lastOp = "none"
    /\ argIndex = 0
    /\ argTodo = NoTodo
    /\ todos = <<>>
    /\ nops = 0
    /\ lineIdle

ParseTodoTxt ==
    /\ nops < MaxOps
    /\ todos' = parseTodoTxt(content)
    /\ lastOp' = "parse"
    /\ before' = content
    /\ nops' = nops + 1
    /\ UNCHANGED <<content, argIndex, argTodo>>
    /\ UNCHANGED lineVars

\* AppendTaskToFile that puts no line feed before the new task
AppendTaskToFileNoLineFeed ==
    /\ nops < MaxOps
    /\ \E newTask \in SampleTodos :
        /\ content' = content \o serializeTodo(newTask)
        /\ argTodo' = newTask
    /\ lastOp' = "append"
    /\ before' = content
    /\ nops' = nops + 1
    /\ UNCHANGED <<argIndex, todos>>
    /\ UNCHANGED lineVars

AppendTaskToFile ==
    /\ nops < MaxOps
    /\ \E newTask \in SampleTodos :
        /\ content' = appendTaskToFile(content, newTask)
        /\ argTodo' = newTask
    /\ lastOp' = "append"
    /\ before' = content
    /\ nops' = nops + 1
    /\ UNCHANGED <<argIndex, todos>>
    /\ UNCHANGED lineVars

UpdateTaskAtLine ==
    /\ nops < MaxOps
    /\ \E lineIndex \in Indices, updatedTodo \in SampleTodos :
        /\ content' = updateTaskAtLine(content, lineIndex, updatedTodo)
        /\ argIndex' = lineIndex
        /\ argTodo' = updatedTodo
    /\ lastOp' = "update"
    /\ before' = content
    /\ nops' = nops + 1
    /\ UNCHANGED todos
    /\ UNCHANGED lineVars

DeleteTaskAtLine ==
    /\ nops < MaxOps
    /\ \E lineIndex \in Indices :
        /\ content' = deleteTaskAtLine(content, lineIndex)
        /\ argIndex' = lineIndex
    /\ lastOp' = "delete"
    /\ before' = content
    /\ nops' = nops + 1
    /\ UNCHANGED <<argTodo, todos>>
    /\ UNCHANGED lineVars

\* a caller parses the text and replaces one record of the list
UpdateTodoInList ==
    /\ nops < MaxOps
    /\ \E index \in Indices, updatedTodo \in SampleTodos :
        LET ts == parseTodoTxt(content)
        IN  /\ content' = updateTodoInList(ts, index, updatedTodo)
            /\ todos' = todosAfterUpdate(ts, index, updatedTodo)
            /\ argIndex' = index
            /\ argTodo' = updatedTodo
    /\ lastOp' = "updateInList"
    /\ before' = content
    /\ nops' = nops + 1
    /\ UNCHANGED lineVars

Next ==
    \/ ParseTodoTxt
    \/ AppendTaskToFile
    \/ UpdateTaskAtLine
    \/ DeleteTaskAtLine
    \/ UpdateTodoInList

Spec == Init /\ [][Next]_vars

-----------------------------------------------------------------------------
(* Properties of the line grammar, checked under SpecLine *)

\* the fields of a Todo that the grammar controls
GrammarFields(t) ==
    <<t.completed, t.priority, t.completionDate, t.creationDate,
      t.projects, t.contexts, t.tags, t.description>>

\* C1: for every input line, parsing the serialized form of the parsed line
\* gives the same completed, priority, completionDate, creationDate, projects,
\* contexts, tags and description as parsing the line itself.
C1_ReparseIdempotent ==
    (phase = "reparsed" /\ origin = "line")
        => GrammarFields(todo2) = GrammarFields(todo)

\* C2: serializeTodo returns "x " iff completed, then "(P) " iff priority is
\* set, then the completion date and a space iff completed and the date is
\* set, then the creation date and a space iff it is set, then description; a
\* record that is not completed serializes without its completion date.
C2_SerializeLayout ==
    phase \in {"serialized", "reparsed"} =>
        LET mark == IF todo.completed THEN <<"x", " ">> ELSE <<>>
            pri == IF todo.priority # Undefined
                   THEN <<"(">> \o todo.priority \o <<")", " ">> ELSE <<>>
            done == IF todo.completed /\ todo.completionDate # Undefined
                    THEN todo.completionDate \o <<" ">> ELSE <<>>
            made == IF todo.creationDate # Undefined
                    THEN todo.creationDate \o <<" ">> ELSE <<>>
        IN  /\ out = mark \o pri \o done \o made \o todo.description
            /\ (~todo.completed /\ todo.completionDate # Undefined)
                  => out = pri \o made \o todo.description

\* C2 witness: a caller-built record, not completed but with a completion
\* date and a creation date, has been serialized without the completion date
C2_Witness ==
    /\ phase = "serialized"
    /\ origin = "caller"
    /\ ~todo.completed
    /\ todo.completionDate = D1
    /\ todo.creationDate = D2
    /\ todo.priority = <<"B">>
    /\ out = <<"(", "B", ")", " ">> \o D2 \o <<" ", "T">>

\* C8: completed is true iff the trimmed line starts with lowercase "x" and
\* one ASCII space; after "X ", "x" without a following space, "xx " or "x"
\* and a tab, and when "x " is not at the start, completed is false and the
\* text stays in description.
C8_CompletionMark ==
    phase = "parsed" =>
        LET t == Trim(line)
            marked == Len(t) >= 2 /\ t[1] = "x" /\ t[2] = " "
        IN  /\ todo.completed <=> marked
            /\ ~marked =>
                  /\ Len(todo.description) <= Len(t)
                  /\ todo.description =
                        SubSeq(t, Len(t) - Len(todo.description) + 1, Len(t))
            /\ (~marked /\ t # <<>> /\ t[1] \in {"x", "X"})
                  => todo.description = t

\* C8 witness: a line that starts with "x" and a tab has been parsed as not
\* completed, with the whole trimmed line as description
C8_Witness ==
    /\ phase = "parsed"
    /\ Len(line) >= 3
    /\ line[1] = "x"
    /\ line[2] = "\t"
    /\ ~todo.completed
    /\ todo.description = Trim(line)

\* C9: priority is the letter P iff the text right after the optional
\* completion prefix "x " begins with "(", one uppercase ASCII letter P, ")"
\* and one ASCII space; in every other case priority is unset.
C9_PriorityOnlyBeforeOneSpace ==
    phase = "parsed" =>
        LET t == Trim(line)
            r == IF StartsWith(t, <<"x", " ">>) THEN Slice(t, 2) ELSE t
            matched == /\ Len(r) >= 4
                       /\ r[1] = "("
                       /\ r[2] \in UpperAZ
                       /\ r[3] = ")"
                       /\ r[4] = " "
        IN  IF matched
            THEN todo.priority = <<r[2]>>
            ELSE todo.priority = Undefined

C11_DateOnlyBeforeOneSpace ==
    phase = "parsed" =>
        LET t == Trim(line)
            r0 == afterCompletion(t, completionMark(t))
            r == IF priorityMatch(r0) > 0 THEN Slice(r0, 4) ELSE r0
            shaped == /\ Len(r) >= 11
                      /\ \A i \in {1, 2, 3, 4, 6, 7, 9, 10} : r[i] \in Digit
                      /\ r[5] = "-"
                      /\ r[8] = "-"
                      /\ r[11] = " "
        IN  IF shaped
            THEN SubSeq(r, 1, 10) \in {todo.completionDate, todo.creationDate}
            ELSE /\ todo.completionDate = Undefined
                 /\ todo.creationDate = Undefined
                 /\ todo.description = r

\* C15: description is the trimmed line without the matched prefix tokens
\* ("x ", "(P) ", each matched date and its one separator) and with nothing
\* else removed: whitespace that follows a consumed token is kept.
C15_DescriptionVerbatim ==
    phase = "parsed" =>
        LET t == Trim(line)
            consumed == (IF todo.completed THEN 2 ELSE 0)
                        + (IF todo.priority # Undefined THEN 4 ELSE 0)
                        + (IF todo.completionDate # Undefined THEN 11 ELSE 0)
                        + (IF todo.creationDate # Undefined THEN 11 ELSE 0)
        IN  /\ consumed <= Len(t)
            /\ todo.description = SubSeq(t, consumed + 1, Len(t))

\* C16: in every record that parseTodoLine returns, completionDate is present
\* only if completed is true.
C16_CompletionDateOnlyWhenCompleted ==
    phase = "parsed" => (todo.completionDate # Undefined => todo.completed)

\* the positions of a sigil that stand at position 0 of s or right after a
\* whitespace character and are followed by a non-whitespace character
SigilStarts(s, sigil) ==
    { p \in 1..Len(s) : /\ s[p] = sigil
                        /\ (p = 1 \/ s[p - 1] \in WhiteSpace)
                        /\ p < Len(s)
                        /\ s[p + 1] \notin WhiteSpace }

\* the maximal run of non-whitespace characters that begins at position p
MaximalRun(s, p) ==
    LET e == CHOOSE e \in p..Len(s) :
                 /\ \A k \in p..e : s[k] \notin WhiteSpace
                 /\ (e = Len(s) \/ s[e + 1] \in WhiteSpace)
    IN  SubSeq(s, p, e)

\* the runs that follow the positions of SigilStarts, from left to right
RunsAfter(s, sigil) ==
    LET starts == SigilStarts(s, sigil)
        nth(i) == CHOOSE p \in starts :
                      Cardinality({q \in starts : q < p}) = i - 1
    IN  [i \in 1..Cardinality(starts) |-> MaximalRun(s, nth(i) + 1)]

\* C12: for every line, projects (contexts) of the parsed line is the
\* left-to-right list of the maximal non-whitespace runs that follow a "+"
\* ("@") standing at position 0 of the trimmed line or right after a
\* whitespace character; a sigil inside a run does not end it and duplicates
\* are kept.
C12_ProjectsAndContexts ==
    phase = "parsed" =>
        /\ todo.projects = RunsAfter(Trim(line), "+")
        /\ todo.contexts = RunsAfter(Trim(line), "@")

\* a line with an inline "@" and a repeated context has been parsed
C12_Witness ==
    /\ phase = "parsed"
    /\ line = <<"@", "c", " ", "m", "@", "c", " ", "@", "c">>
    /\ todo.contexts = << <<"c">>, <<"c">> >>
    /\ todo.projects = <<>>

\* the whitespace-delimited tokens of s, from index i on
RECURSIVE WordsFrom(_, _, _)
WordsFrom(s, i, acc) ==
    IF i > Len(s) THEN acc
    ELSE IF s[i] \in WhiteSpace THEN WordsFrom(s, i + 1, acc)
    ELSE LET w == MaximalRun(s, i)
         IN  WordsFrom(s, i + Len(w), Append(acc, w))

Words(s) == WordsFrom(s, 1, <<>>)

\* the tag of one token split at its first colon: a set with one <<key, value>>
\* pair, or the empty set when the token begins with a sigil, has no colon,
\* or has nothing before or nothing after its first colon
SplitTag(w) ==
    LET colons == { c \in 1..Len(w) : w[c] = ":" }
    IN  IF colons = {} \/ w[1] \in {"+", "@"} THEN {}
        ELSE LET c == CHOOSE c \in colons : \A d \in colons : c <= d
                 key == SubSeq(w, 1, c - 1)
                 value == SubSeq(w, c + 1, Len(w))
             IN  IF key # <<>> /\ value # <<>> THEN {<<key, value>>} ELSE {}

\* C13: for every line, every tag of the parsed line comes from a token of the
\* trimmed line that does not begin with "+" or "@" and splits at its first
\* colon into that non-empty key and that non-empty value, and every such
\* token puts its key into tags; a token with nothing before or nothing after
\* its first colon gives no tag.
C13_TagsSplitAtFirstColon ==
    phase = "parsed" =>
        LET ws == Words(Trim(line))
            produced == UNION { SplitTag(ws[i]) : i \in 1..Len(ws) }
        IN  /\ \A kv \in todo.tags : kv \in produced
            /\ \A kv \in produced : \E kv2 \in todo.tags : kv2[1] = kv[1]

\* C14: for every line with two or more tag tokens of the same key, tags of
\* the parsed line maps that key to the value of the rightmost of them only.
C14_RightmostTagWins ==
    phase = "parsed" =>
        LET ws == Words(Trim(line))
            sameKey(i, j) == /\ SplitTag(ws[i]) # {}
                             /\ SplitTag(ws[j]) # {}
                             /\ \E a \in SplitTag(ws[i]), b \in SplitTag(ws[j]) :
                                    a[1] = b[1]
        IN  \A j \in 1..Len(ws) :
                (/\ \E i \in 1..(j - 1) : sameKey(i, j)
                 /\ ~ \E l \in (j + 1)..Len(ws) : sameKey(j, l))
                => \A b \in SplitTag(ws[j]) :
                       { kv \in todo.tags : kv[1] = b[1] } = {b}

\* a line with the key "k" in two tokens of different values has been parsed
C14_Witness ==
    /\ phase = "parsed"
    /\ line = <<"k", ":", "v", " ", "T", " ", "k", ":", "w", ":", "u", " ",
                "j", ":", "v">>
    /\ todo.tags = { << <<"k">>, <<"w", ":", "u">> >>, << <<"j">>, <<"v">> >> }

\* C20: serializeTodo reads completed, priority, completionDate, creationDate
\* and description only: the record with any other raw, projects, contexts
\* and tags serializes to the same string.
C20_SerializeReadsFiveFields ==
    phase = "serialized" =>
        \A r \in { <<>>, <<"(", "A", ")", " ", "Z">> },
           ps \in { <<>>, << <<"q">> >> },
           cs \in { <<>>, << <<"c">> >> },
           tg \in { {}, { << <<"j">>, <<"u">> >> } } :
            serializeTodo([todo EXCEPT !.raw = r, !.projects = ps,
                                       !.contexts = cs, !.tags = tg]) = out

\* a record whose projects and tags are absent from its description has been
\* serialized: the output has neither
C20_Witness ==
    /\ phase = "serialized"
    /\ origin = "caller"
    /\ todo.projects = << <<"p">> >>
    /\ todo.tags = { << <<"k">>, <<"v">> >> }
    /\ todo.description = <<"T">>
    /\ todo.priority = <<"B">>
    /\ out = <<"(", "B", ")", " ", "T">>

\* C24: for every line, projects, contexts and tags of the parsed line, which
\* are scanned over the whole trimmed line, are those that the same three
\* scans give on the description alone.
C24_AnnotationsFromDescription ==
    phase = "parsed" =>
        /\ todo.projects = projectMatches(todo.description)
        /\ todo.contexts = contextMatches(todo.description)
        /\ todo.tags = tagMatches(todo.description, 1, {})

\* a line with a completion mark, a priority and a date before its
\* annotations has been parsed
C24_Witness ==
    /\ phase = "parsed"
    /\ todo.completed
    /\ todo.priority = <<"A">>
    /\ todo.completionDate = D1
    /\ todo.description = <<"@", "c", " ", "+", "p", " ", "k", ":", "v">>
    /\ todo.contexts = << <<"c">> >>
    /\ todo.projects = << <<"p">> >>
    /\ todo.tags = { << <<"k">>, <<"v">> >> }

-----------------------------------------------------------------------------
(* Properties of the file-level operations, checked under Spec *)

\* the lines of a text that are not empty after trimming, in order
RecordLines(text) ==
    SelectSeq(splitLF(text, <<>>, <<>>), LAMBDA l : Trim(l) # <<>>)

\* C3: on a non-empty text with n records, updateTaskAtLine and
\* deleteTaskAtLine with an index outside [0, n), negative ones included,
\* return the text character for character; on the empty text both return the
\* empty string for every index and record.
C3_BoundsSafety ==
    lastOp \in {"update", "delete"} =>
        LET n == Len(RecordLines(before))
        IN  /\ before = <<>> => content = <<>>
            /\ (before # <<>> /\ (argIndex < 0 \/ argIndex >= n))
                  => content = before

\* C3 witness: an update at index n of a text whose lines are not in
\* canonical form has returned the text unchanged
C3_Witness ==
    /\ lastOp = "update"
    /\ before # <<>>
    /\ argIndex = Len(RecordLines(before))
    /\ argIndex > 0
    /\ before # joinLF(mapSerialize(parseTodoTxt(before)))
    /\ content = before

C5_UpdateInRange ==
    (lastOp = "update" /\ before # <<>>
        /\ argIndex >= 0 /\ argIndex < Len(RecordLines(before))) =>
        LET ts == parseTodoTxt(before)
            items == [i \in 1..Len(RecordLines(before)) |->
                        IF i = argIndex + 1 THEN serializeTodo(argTodo)
                        ELSE serializeTodo(ts[i])]
        IN  /\ content = joinLF(items)
            /\ Len(ts) = Len(items)

\* C5 witness: the second of two records has been replaced
C5_Witness ==
    /\ lastOp = "update"
    /\ argIndex = 1
    /\ Len(RecordLines(before)) = 2
    /\ content = serializeTodo(parseTodoLine(RecordLines(before)[1]))
                    \o <<"\n">> \o serializeTodo(argTodo)

\* C6: appendTaskToFile returns serializeTodo(newRecord) alone when the text
\* is empty, and otherwise the text, one line feed and serializeTodo(newRecord);
\* the existing text is an unmodified prefix of the result.
C6_Append ==
    lastOp = "append" =>
        /\ before = <<>> => content = serializeTodo(argTodo)
        /\ before # <<>> =>
              /\ content = before \o <<"\n">> \o serializeTodo(argTodo)
              /\ Len(content) = Len(before) + 1 + Len(serializeTodo(argTodo))
        /\ SubSeq(content, 1, Len(before)) = before

\* C6 witness: a record has been appended to a text that is not in canonical
\* form, and the text is still the prefix
C6_Witness ==
    /\ lastOp = "append"
    /\ before # <<>>
    /\ before # joinLF(mapSerialize(parseTodoTxt(before)))
    /\ SubSeq(content, 1, Len(before)) = before
    /\ content[Len(before) + 1] = "\n"

\* C7: parseTodoTxt(text) has one record per line of the text (split on line
\* feed) that is not empty after trimming, in the order of the lines, record i
\* being parseTodoLine of the i-th such line; the empty text and a text of
\* blank lines give the empty sequence.
C7_ParseBuffer ==
    lastOp = "parse" =>
        LET ls == RecordLines(before)
        IN  /\ Len(todos) = Len(ls)
            /\ \A i \in 1..Len(ls) : todos[i] = parseTodoLine(ls[i])
            /\ (\A i \in 1..Len(before) : before[i] \in WhiteSpace)
                  => todos = <<>>

\* C7 witness: a text of one whitespace-only line and one task line has been
\* parsed into the single record of the task line
C7_Witness ==
    /\ lastOp = "parse"
    /\ before = <<" ", "\n", "(", "A", ")", " ", "T">>
    /\ Len(todos) = 1
    /\ todos[1].priority = <<"A">>
    /\ todos[1].raw = <<"(", "A", ")", " ", "T">>

\* C17: updateTodoInList returns the empty string for an empty list, the
\* line-feed join of serializeTodo over the unchanged list when index is
\* negative or >= length, and otherwise the join over the list with the new
\* record at position index; the list passed in is the same after the call.
C17_UpdateTodoInList ==
    lastOp = "updateInList" =>
        LET ts == parseTodoTxt(before)
            n == Len(ts)
        IN  /\ todos = ts
            /\ content =
                 IF n = 0 THEN <<>>
                 ELSE IF argIndex < 0 \/ argIndex >= n
                      THEN joinLF([i \in 1..n |-> serializeTodo(ts[i])])
                      ELSE joinLF([i \in 1..n |->
                                    IF i = argIndex + 1 THEN serializeTodo(argTodo)
                                    ELSE serializeTodo(ts[i])])

\* the second record of a list of two has been replaced in the returned text
\* and the list still holds the old record
C17_Witness ==
    /\ lastOp = "updateInList"
    /\ argIndex = 1
    /\ Len(todos) = 2
    /\ todos[2] # argTodo
    /\ content = serializeTodo(todos[1]) \o <<"\n">> \o serializeTodo(argTodo)
    /\ content # before

\* the text with every line feed replaced by carriage return + line feed
RECURSIVE ToCRLF(_)
ToCRLF(text) ==
    IF text = <<>> THEN <<>>
    ELSE IF Head(text) = "\n" THEN <<"\r", "\n">> \o ToCRLF(Tail(text))
    ELSE <<Head(text)>> \o ToCRLF(Tail(text))

\* C18: parseTodoTxt of a text with every line feed replaced by carriage
\* return + line feed gives as many records as parseTodoTxt of the text, in
\* the same order and with the same completed, priority, completionDate,
\* creationDate, description, projects, contexts and tags.
C18_CRLFTolerance ==
    lastOp = "parse" =>
        LET crlf == parseTodoTxt(ToCRLF(before))
        IN  /\ Len(crlf) = Len(todos)
            /\ \A i \in 1..Len(todos) :
                   GrammarFields(crlf[i]) = GrammarFields(todos[i])

\* a text of two records has been parsed; its CRLF form gives another raw
C18_Witness ==
    /\ lastOp = "parse"
    /\ Len(todos) = 2
    /\ ToCRLF(before) # before
    /\ parseTodoTxt(ToCRLF(before))[1].raw # todos[1].raw
    /\ todos[1].description = <<"T">>

\* a text whose lines are joined by single line feeds: no two consecutive
\* line feeds and no line feed at the end
WellJoined(text) ==
    /\ \A i \in 1..(Len(text) - 1) : ~(text[i] = "\n" /\ text[i + 1] = "\n")
    /\ (text = <<>> \/ text[Len(text)] # "\n")

\* a record obtained from parseTodoLine on a non-blank single-line string
ParsedRecord(t) ==
    /\ Trim(t.raw) # <<>>
    /\ \A i \in 1..Len(t.raw) : t.raw[i] # "\n"
    /\ t = parseTodoLine(t.raw)

\* index is a position of the list parsed from text
InRange(text, index) == index >= 0 /\ index < Len(parseTodoTxt(text))

\* C19 as stated: for every input text and every record parsed from a
\* non-blank single-line string, the text returned by appendTaskToFile, by an
\* in-range updateTaskAtLine and by an in-range deleteTaskAtLine has no two
\* consecutive line feeds and does not end with a line feed.
C19_SingleLineFeeds ==
    /\ (lastOp = "append" /\ ParsedRecord(argTodo)) => WellJoined(content)
    /\ (lastOp = "update" /\ ParsedRecord(argTodo) /\ InRange(before, argIndex))
            => WellJoined(content)
    /\ (lastOp = "delete" /\ InRange(before, argIndex)) => WellJoined(content)

\* C19 amended: the same, but for appendTaskToFile only when the input text
\* itself has no two consecutive line feeds and does not end with a line
\* feed; the in-range update and delete hold for every input text.
C19_SingleLineFeedsAmended ==
    /\ (lastOp = "append" /\ ParsedRecord(argTodo) /\ WellJoined(before))
            => WellJoined(content)
    /\ (lastOp = "update" /\ ParsedRecord(argTodo) /\ InRange(before, argIndex))
            => WellJoined(content)
    /\ (lastOp = "delete" /\ InRange(before, argIndex)) => WellJoined(content)

\* a parsed record has been appended to a text of two records joined by one
\* line feed
C19_Witness ==
    /\ lastOp = "append"
    /\ ParsedRecord(argTodo)
    /\ WellJoined(before)
    /\ Len(parseTodoTxt(before)) = 2
    /\ content = before \o <<"\n">> \o serializeTodo(argTodo)
    /\ WellJoined(content)

\* C21: an in-range updateTaskAtLine or deleteTaskAtLine changes only the
\* addressed record: every other record, parsed again from the returned text,
\* has the completed, priority, completionDate, creationDate, description,
\* projects, contexts and tags it had in parseTodoTxt of the text, and the
\* records keep their order.
C21_OtherRecordsKept ==
    (lastOp \in {"update", "delete"} /\ InRange(before, argIndex)) =>
        LET old == parseTodoTxt(before)
            new == parseTodoTxt(content)
        IN  IF lastOp = "update"
            THEN /\ Len(new) = Len(old)
                 /\ \A k \in 1..Len(old) :
                        k # argIndex + 1 =>
                            GrammarFields(new[k]) = GrammarFields(old[k])
            ELSE /\ Len(new) = Len(old) - 1
                 /\ \A k \in 1..(Len(old) - 1) :
                        GrammarFields(new[k]) =
                            GrammarFields(old[IF k <= argIndex THEN k ELSE k + 1])

NonBlankPositions(text) ==
    LET ls == splitLF(text, <<>>, <<>>)
    IN  { p \in 1..Len(ls) : Trim(ls[p]) # <<>> }

\* the k-th (from 1) smallest member of a set of positions
NthPosition(S, k) == CHOOSE p \in S : Cardinality({ q \in S : q < p }) = k - 1

\* C23: in updateTaskAtLine and deleteTaskAtLine index i designates the i-th
\* line of the text that is not empty after trimming, the range check uses
\* the number of such lines, and after an in-range call no blank line of the
\* input is in the returned text.
C23_IndexAddressesRecords ==
    (lastOp \in {"update", "delete"} /\ before # <<>>) =>
        LET ls == splitLF(before, <<>>, <<>>)
            nb == NonBlankPositions(before)
            n == Cardinality(nb)
        IN  IF argIndex < 0 \/ argIndex >= n THEN content = before
            ELSE LET p == NthPosition(nb, argIndex + 1)
                     kept == IF lastOp = "update" THEN nb ELSE nb \ {p}
                     item(q) == IF q = p THEN serializeTodo(argTodo)
                                ELSE serializeTodo(parseTodoLine(ls[q]))
                 IN  /\ content = joinLF([k \in 1..Cardinality(kept) |->
                                            item(NthPosition(kept, k))])
                     /\ NonBlankPositions(content) =
                            1..Cardinality(kept)

\* the record after a blank first line has been replaced with index 0 and the
\* blank line is gone
C23_Witness ==
    /\ lastOp = "update"
    /\ argIndex = 0
    /\ NonBlankPositions(before) = {2}
    /\ content = serializeTodo(argTodo)
    /\ content # <<>>

\* the text that updateTaskAtLine and deleteTaskAtLine build from the records
\* they leave alone: todos.map(serializeTodo).join("\n") of parseTodoTxt
Rerender(text) == joinLF(mapSerialize(parseTodoTxt(text)))

\* C25: re-rendering a text is idempotent, Rerender(Rerender(text)) =
\* Rerender(text) for every text.
C25_RerenderIdempotent ==
    Rerender(Rerender(content)) = Rerender(content)

====
